---- MODULE Spec2Model ----
(***************************************************************************)
(* Model of chatette.units (UnitDefinition, RuleContent, Example and the   *)
(* leading-case helpers) and of chatette.parsing.parser_utils.             *)
(*                                                                         *)
(* Conventions.  A Python string is a sequence of one-character strings.   *)
(* An optional value is a sequence of length at most one: None is << >>    *)
(* and a present value x is <<x>>.  A Python list object is an index into  *)
(* `heap`, so that two references to the same list are the same index.     *)
(***************************************************************************)
EXTENDS Integers, Sequences, FiniteSets, TLC

VARIABLES
    name,                 \* UnitDefinition.name
    argument_identifier,  \* UnitDefinition.argument_identifier (optional string)
    casegen,              \* UnitDefinition.casegen
    heap,                 \* the list objects: heap[i] is the content of list i
    rules,                \* UnitDefinition.rules: the index of a list object
    variations,           \* UnitDefinition.variations: name -> index of a list object
    callerLists,          \* list objects the caller created and still holds
    added,                \* history: for each variation name, the rules added under it
    call,                 \* the last call: its operation and arguments
    outcome,              \* how the last call ended: "ok" or the exception raised
    returned,             \* the list of Examples the last call returned
    returned_nb,          \* the count the last call returned (optional)
    trace,                \* what the last generation call did on its way
    tokens,               \* parser: the token list given to the parser function
    parsed                \* parser: the function applied, how it ended, its value

unitVars == <<name, argument_identifier, casegen, heap, rules, variations,
              callerLists, added>>
callVars == <<call, outcome, returned, returned_nb, trace>>
parserVars == <<tokens, parsed>>
vars == <<name, argument_identifier, casegen, heap, rules, variations,
          callerLists, added, call, outcome, returned, returned_nb, trace,
          tokens, parsed>>

----------------------------------------------------------------------------
(* Optional values *)

None == << >>

Some(x) == <<x>>

----------------------------------------------------------------------------
(* Bounds of the model *)

\* longest list of rules any list object may hold
MaxRules == 2

\* most list objects that may exist
MaxLists == 3

\* most rules added to a unit that is built to generate from any rules
MaxGenRules == 1

\* longest rule (number of nodes) a caller adds
MaxRuleLen == 2

\* longest argument value a caller passes
MaxValLen == 1

\* longest token list given to a parser function
MaxTokens == 4

----------------------------------------------------------------------------
(* Characters and strings *)

SPACE == " "

\* str.isspace on the characters of the model
isspace(c) == c = SPACE

\* str.isalpha on the characters of the model
isalpha(c) == c \in {"a", "A", "w", "W", "x", "X", "y", "Y"}

\* str.upper on one character
upper(c) ==
    CASE c = "a" -> "A"
      [] c = "w" -> "W"
      [] c = "x" -> "X"
      [] c = "y" -> "Y"
      [] OTHER -> c

\* str.lower on one character
lower(c) ==
    CASE c = "A" -> "a"
      [] c = "W" -> "w"
      [] c = "X" -> "x"
      [] c = "Y" -> "y"
      [] OTHER -> c

\* the index of the first character that is not a space, 0 when there is none
FirstNonSpace(text) ==
    IF \E i \in 1..Len(text) : ~isspace(text[i])
    THEN CHOOSE i \in 1..Len(text) :
            /\ ~isspace(text[i])
            /\ \A j \in 1..(i - 1) : isspace(text[j])
    ELSE 0

may_change_leading_case(text) ==
    LET i == FirstNonSpace(text) IN i # 0 /\ isalpha(text[i])

with_leading_upper(text) ==
    LET i == FirstNonSpace(text)
    IN  IF i = 0 THEN text ELSE [text EXCEPT ![i] = upper(text[i])]

with_leading_lower(text) ==
    LET i == FirstNonSpace(text)
    IN  IF i = 0 THEN text ELSE [text EXCEPT ![i] = lower(text[i])]

\* the outcomes of randomly_change_case: randint decides which one
randomly_change_case(text) == {with_leading_lower(text), with_leading_upper(text)}

----------------------------------------------------------------------------
(* Example *)

Example(text, entities) == [text |-> text, entities |-> entities]

EmptyExample == Example(<< >>, << >>)

----------------------------------------------------------------------------
(* RuleContent: the nodes of a rule.                                       *)
(* A node is a record: `outs` is what its generate_all returns, `nb` what  *)
(* its get_max_nb_generated_examples returns, `chc` what its               *)
(* can_have_casegen returns, `randgen` its randgen name, `gen` the         *)
(* examples its generate_random may return when it generates.              *)

\* an instance of the superclass RuleContent itself
BaseNode ==
    [id |-> "base", outs |-> <<EmptyExample>>, nb |-> None, chc |-> FALSE,
     randgen |-> None, gen |-> <<EmptyExample>>]

\* a reference to a unit whose only rule is empty: generate_all returns no
\* example, the count is 0 and generate_random returns the empty Example
NoOutput ==
    [id |-> "ref", outs |-> << >>, nb |-> Some(0), chc |-> FALSE,
     randgen |-> None, gen |-> <<EmptyExample>>]

\* a choice between the slot value `a` (tagged as an entity) and the word `3`
Choice ==
    [id |-> "choice",
     outs |-> <<Example(<<"a">>, <<"e1">>), Example(<<"3">>, << >>)>>,
     nb |-> Some(2), chc |-> TRUE, randgen |-> None,
     gen |-> <<Example(<<"a">>, <<"e1">>), Example(<<"3">>, << >>)>>]

\* a word group holding an argument `$x` or an escaped and followed one `\$xy`
ArgWord ==
    [id |-> "arg",
     outs |-> <<Example(<<"$", "x">>, << >>),
                Example(<<"\\", "$", "x", "y">>, <<"e2">>)>>,
     nb |-> Some(2), chc |-> FALSE, randgen |-> None,
     gen |-> <<Example(<<"$", "x">>, << >>),
               Example(<<"\\", "$", "x", "y">>, <<"e2">>)>>]

\* a word ` w` that the randgen named `g` may leave out
Opt ==
    [id |-> "opt",
     outs |-> <<Example(<<SPACE, "w">>, << >>), EmptyExample>>,
     nb |-> Some(2), chc |-> TRUE, randgen |-> Some("g"),
     gen |-> <<Example(<<SPACE, "w">>, << >>)>>]

Nodes == {BaseNode, NoOutput, Choice, ArgWord, Opt}

\* sub_unit_rule.generate_all()
NodeGenerateAll(node) == node.outs

\* sub_unit_rule.get_max_nb_generated_examples()
NodeMaxNb(node) == node.nb

\* rule[0].can_have_casegen()
NodeCanHaveCasegen(node) == node.chc

\* the rules a caller may add: every sequence of at most MaxRuleLen nodes
GenRules == UNION {[1..n -> Nodes] : n \in 0..MaxRuleLen}

\* the rules added while the sharing of list objects is explored
BuildRules == {<<BaseNode>>, <<Choice>>}

\* the argument values a caller may pass
ArgValues == UNION {[1..n -> {"w", "\\"}] : n \in 1..MaxValLen}

----------------------------------------------------------------------------
(* Argument substitution: arg_regex.sub(arg_value, text), then             *)
(* text.replace(r"\$", "$")                                                *)

ESCAPE_SYM == "\\"

ARG_SYM == "$"

\* re's parsing of the replacement template: Some(expanded template), or
\* None when it raises re.error.  `\\` stands for one backslash, `\a` for the
\* bell character, a backslash before another letter or at the end is an
\* error, a backslash before any other character is kept with it.
RECURSIVE parse_template(_, _)
parse_template(repl, i) ==
    IF i > Len(repl) THEN Some(<< >>)
    ELSE IF repl[i] # ESCAPE_SYM
    THEN LET r == parse_template(repl, i + 1)
         IN  IF r = None THEN None ELSE Some(<<repl[i]>> \o r[1])
    ELSE IF i = Len(repl) THEN None
    ELSE LET n == repl[i + 1]
             r == parse_template(repl, i + 2)
         IN  IF r = None \/ (isalpha(n) /\ n # "a") THEN None
             ELSE IF n = ESCAPE_SYM THEN Some(<<ESCAPE_SYM>> \o r[1])
             ELSE IF n = "a" THEN Some(<<"BEL">> \o r[1])
             ELSE Some(<<ESCAPE_SYM, n>> \o r[1])

\* PATTERN_ARG = r"(?<!\\)\$" + arg matches at position i of text
arg_regex_match(text, i, arg) ==
    /\ text[i] = ARG_SYM
    /\ i = 1 \/ text[i - 1] # ESCAPE_SYM
    /\ i + Len(arg) <= Len(text)
    /\ SubSeq(text, i + 1, i + Len(arg)) = arg

\* arg_regex.sub: every match, left to right and not overlapping, replaced
RECURSIVE arg_regex_sub(_, _, _, _)
arg_regex_sub(text, i, arg, expanded) ==
    IF i > Len(text) THEN << >>
    ELSE IF arg_regex_match(text, i, arg)
    THEN expanded \o arg_regex_sub(text, i + 1 + Len(arg), arg, expanded)
    ELSE <<text[i]>> \o arg_regex_sub(text, i + 1, arg, expanded)

\* text.replace(r"\$", "$")
RECURSIVE replace_escaped_arg(_, _)
replace_escaped_arg(text, i) ==
    IF i > Len(text) THEN << >>
    ELSE IF i < Len(text) /\ text[i] = ESCAPE_SYM /\ text[i + 1] = ARG_SYM
    THEN <<ARG_SYM>> \o replace_escaped_arg(text, i + 2)
    ELSE <<text[i]>> \o replace_escaped_arg(text, i + 1)

\* the argument step on one text: Some(new text), or None when re.error is raised
ReplaceArg(text, arg_value, arg) ==
    IF arg_value = None \/ arg = None THEN Some(text)
    ELSE LET t == parse_template(arg_value[1], 1)
         IN  IF t = None THEN None
             ELSE Some(replace_escaped_arg(arg_regex_sub(text, 1, arg[1], t[1]), 1))

----------------------------------------------------------------------------
(* generate_all: the examples of the rules *)

\* Example(ex.text + possibility.text, ex.entities + possibility.entities)
Combine(ex, possibility) ==
    Example(ex.text \o possibility.text, ex.entities \o possibility.entities)

\* tmp_buffer: for ex in examples_from_current_rule, for possibility in ...
TmpBuffer(examples, possibilities) ==
    [k \in 1..(Len(examples) * Len(possibilities)) |->
        Combine(examples[((k - 1) \div Len(possibilities)) + 1],
                possibilities[((k - 1) % Len(possibilities)) + 1])]

\* the loop over the nodes of one rule, from node i on
RECURSIVE ExamplesFromRule(_, _, _)
ExamplesFromRule(rule, i, examples_from_current_rule) ==
    IF i > Len(rule) THEN examples_from_current_rule
    ELSE LET sub_unit_possibilities == NodeGenerateAll(rule[i])
         IN  ExamplesFromRule(rule, i + 1,
                IF Len(examples_from_current_rule) <= 0
                THEN sub_unit_possibilities
                ELSE TmpBuffer(examples_from_current_rule, sub_unit_possibilities))

\* the loop over the relevant rules, from rule i on
RECURSIVE ExamplesFromRules(_, _)
ExamplesFromRules(relevant_rules, i) ==
    IF i > Len(relevant_rules) THEN << >>
    ELSE ExamplesFromRule(relevant_rules[i], 1, << >>)
            \o ExamplesFromRules(relevant_rules, i + 1)

\* the casegen loop of generate_all, from example i on
RECURSIVE CasegenExamples(_, _)
CasegenExamples(examples, i) ==
    IF i > Len(examples) THEN << >>
    ELSE LET ex == examples[i]
             lower_ex == Example(with_leading_lower(ex.text), ex.entities)
             upper_ex == Example(with_leading_upper(ex.text), ex.entities)
         IN  (IF lower_ex # upper_ex THEN <<lower_ex, upper_ex>> ELSE <<ex>>)
                \o CasegenExamples(examples, i + 1)

\* the count loop over the nodes of one rule, from node i on
RECURSIVE RuleNbEx(_, _, _)
RuleNbEx(rule, i, rule_nb_ex) ==
    IF i > Len(rule) THEN rule_nb_ex
    ELSE LET current_nb_ex == NodeMaxNb(rule[i])
         IN  IF current_nb_ex = None THEN RuleNbEx(rule, i + 1, rule_nb_ex)
             ELSE IF rule_nb_ex = 0 THEN RuleNbEx(rule, i + 1, current_nb_ex[1])
             ELSE RuleNbEx(rule, i + 1, rule_nb_ex * current_nb_ex[1])

\* the count loop over the relevant rules, from rule i on
RECURSIVE NbPossibleEx(_, _)
NbPossibleEx(relevant_rules, i) ==
    IF i > Len(relevant_rules) THEN 0
    ELSE RuleNbEx(relevant_rules[i], 1, 0) + NbPossibleEx(relevant_rules, i + 1)

----------------------------------------------------------------------------
(* UnitDefinition: construction, add_rule, add_rules *)

\* the variation names a caller may tag added rules with (None: no variation)
AddNames == {None, Some(""), Some("a"), Some("rules")}

\* the variation names a caller may ask a generation for
QueryNames == {None, Some("a"), Some("zz")}

\* the names under which the history `added` records rules
KeyNames == {"a", "rules"}

\* longest list a caller creates to pass it to add_rules or to the constructor
MaxNewList == 1

\* the contents of the lists a caller creates
NewListContents == UNION {[1..n -> BuildRules] : n \in 0..MaxNewList}

NoCall == [op |-> "__init__", variation_name |-> None, arg_value |-> None]

NoTrace ==
    [chosen |-> None, rolls |-> << >>, flags |-> << >>, generated |-> << >>,
     before_arg |-> << >>, after_arg |-> << >>]

\* the parser functions are not called while a unit is built and used
NotParsed == [fn |-> "none", verdict |-> "none", value |-> None]

ParserIdle == tokens = << >> /\ parsed = NotParsed

\* UnitDefinition(name, rules, arg, casegen): `rules` is None or a list of the caller
Construct(n, rs, arg, cg) ==
    /\ name = n
    /\ argument_identifier = arg
    /\ casegen = cg
    /\ heap = IF rs = None THEN << << >> >> ELSE <<rs[1]>>
    /\ rules = 1
    /\ callerLists = IF rs = None THEN {} ELSE {1}
    /\ variations = [v \in {} |-> 0]
    /\ added = [v \in KeyNames |-> << >>]
    /\ call = NoCall
    /\ outcome = "ok"
    /\ returned = << >>
    /\ returned_nb = None
    /\ trace = NoTrace

\* no list of the model grows beyond the bounds
WithinBounds(h, longest) ==
    /\ Len(h) <= MaxLists
    /\ \A i \in 1..Len(h) : Len(h[i]) <= longest

\* what an add_rule or add_rules call leaves besides the unit's own fields
AddCallEnds(op, variation_name, how) ==
    /\ call' = [op |-> op, variation_name |-> variation_name, arg_value |-> None]
    /\ outcome' = how
    /\ returned' = << >>
    /\ returned_nb' = None
    /\ trace' = NoTrace
    /\ UNCHANGED <<name, argument_identifier, casegen, rules, tokens, parsed>>

\* add_rule(rule, variation_name)
add_rule(rule, variation_name) ==
    LET appended == [heap EXCEPT ![rules] = Append(@, rule)]
    IN  IF variation_name = None
        THEN /\ heap' = appended
             /\ UNCHANGED <<variations, added, callerLists>>
             /\ AddCallEnds("add_rule", variation_name, "ok")
        ELSE IF variation_name[1] = ""
        THEN /\ heap' = appended
             /\ UNCHANGED <<variations, added, callerLists>>
             /\ AddCallEnds("add_rule", variation_name, "SyntaxError")
        ELSE IF variation_name[1] \notin DOMAIN variations
        THEN /\ heap' = Append(appended, <<rule>>)
             /\ variations' = variations @@ (variation_name[1] :> Len(appended) + 1)
             /\ added' = [added EXCEPT ![variation_name[1]] = Append(@, rule)]
             /\ UNCHANGED callerLists
             /\ AddCallEnds("add_rule", variation_name, "ok")
        ELSE /\ heap' = [appended EXCEPT ![variations[variation_name[1]]] = Append(@, rule)]
             /\ added' = [added EXCEPT ![variation_name[1]] = Append(@, rule)]
             /\ UNCHANGED <<variations, callerLists>>
             /\ AddCallEnds("add_rule", variation_name, "ok")

\* add_rules(rules, variation_name), `rules` being the list object `list` of
\* heap `h` (the caller's list, created for the call or held from before)
add_rules(h, list, variation_name) ==
    LET extended == [h EXCEPT ![rules] = @ \o h[list]]
    IN  /\ callerLists' = callerLists \cup {list}
        /\ IF variation_name = None
           THEN /\ heap' = extended
                /\ UNCHANGED <<variations, added>>
                /\ AddCallEnds("add_rules", variation_name, "ok")
           ELSE IF variation_name[1] = ""
           THEN /\ heap' = extended
                /\ UNCHANGED <<variations, added>>
                /\ AddCallEnds("add_rules", variation_name, "SyntaxError")
           ELSE IF variation_name[1] \notin DOMAIN variations
           THEN /\ heap' = extended
                /\ variations' = variations @@ (variation_name[1] :> list)
                /\ added' = [added EXCEPT ![variation_name[1]] = @ \o h[list]]
                /\ AddCallEnds("add_rules", variation_name, "ok")
           ELSE /\ heap' = [extended EXCEPT ![variations[variation_name[1]]] =
                                @ \o extended[list]]
                /\ added' = [added EXCEPT ![variation_name[1]] = @ \o h[list]]
                /\ UNCHANGED variations
                /\ AddCallEnds("add_rules", variation_name, "ok")

\* a caller adds one rule
AddRule(ruleSet, nameSet, longest) ==
    \E rule \in ruleSet, variation_name \in nameSet :
        /\ add_rule(rule, variation_name)
        /\ WithinBounds(heap', longest)

\* a caller passes a list it has just created
AddNewRules ==
    \E content \in NewListContents, variation_name \in AddNames :
        /\ add_rules(Append(heap, content), Len(heap) + 1, variation_name)
        /\ WithinBounds(heap', MaxRules)

\* a caller passes again a list it created before
AddHeldRules ==
    \E list \in callerLists, variation_name \in AddNames :
        /\ add_rules(heap, list, variation_name)
        /\ WithinBounds(heap', MaxRules)

----------------------------------------------------------------------------
(* UnitDefinition: generate_random *)

\* chatette.utils.choose: None for an empty list, else any of its elements
choose(list) ==
    IF list = << >> THEN {None} ELSE {Some(list[i]) : i \in 1..Len(list)}

\* generated_examples = dict()
NewRandgens == [g \in {} |-> FALSE]

\* token.generate_random(generated_randgens) of a node of a subclass: a node
\* with a randgen name follows the decision recorded under that name, or
\* rolls and records its decision; a node that generates returns one of its
\* examples, a node that does not returns the empty Example
NodeGenerateRandom(node, generated_randgens, roll, pick) ==
    LET named == node.randgen # None
        decided == named /\ node.randgen[1] \in DOMAIN generated_randgens
        generates == IF ~named THEN TRUE
                     ELSE IF decided THEN generated_randgens[node.randgen[1]]
                     ELSE roll
    IN  [example |-> IF generates THEN node.gen[pick] ELSE EmptyExample,
         generates |-> generates,
         randgens |-> IF named /\ ~decided
                      THEN generated_randgens @@ (node.randgen[1] :> roll)
                      ELSE generated_randgens]

\* a loop that gives every token a dict of its own
RECURSIVE GenerateTokensOwnDict(_, _, _, _, _)
GenerateTokensOwnDict(chosen_rule, i, generated_randgens, rolls, picks) ==
    IF i > Len(chosen_rule)
    THEN [text |-> << >>, entities |-> << >>, flags |-> << >>]
    ELSE LET generated_token ==
                 NodeGenerateRandom(chosen_rule[i], NewRandgens, rolls[i], picks[i])
             rest == GenerateTokensOwnDict(chosen_rule, i + 1, NewRandgens,
                                           rolls, picks)
         IN  [text |-> generated_token.example.text \o rest.text,
              entities |-> generated_token.example.entities \o rest.entities,
              flags |-> <<generated_token.generates>> \o rest.flags]

\* the loop over the tokens of the chosen rule, from token i on, every token
\* being given the same dict generated_randgens
RECURSIVE GenerateTokens(_, _, _, _, _)
GenerateTokens(chosen_rule, i, generated_randgens, rolls, picks) ==
    IF i > Len(chosen_rule)
    THEN [text |-> << >>, entities |-> << >>, flags |-> << >>]
    ELSE LET generated_token ==
                 NodeGenerateRandom(chosen_rule[i], generated_randgens,
                                    rolls[i], picks[i])
             rest == GenerateTokens(chosen_rule, i + 1,
                                    generated_token.randgens, rolls, picks)
         IN  [text |-> generated_token.example.text \o rest.text,
              entities |-> generated_token.example.entities \o rest.entities,
              flags |-> <<generated_token.generates>> \o rest.flags]

\* the random draws of one generate_random call on a rule: one roll for each
\* node that has a randgen name (FALSE stands for no roll at the other
\* nodes) and one pick of an example for each node
Rolls(rule) ==
    {r \in [1..Len(rule) -> BOOLEAN] :
        \A i \in 1..Len(rule) : rule[i].randgen = None => ~r[i]}

Picks(rule) ==
    {p \in [1..Len(rule) -> 1..2] : \A i \in 1..Len(rule) : p[i] <= Len(rule[i].gen)}

\* a call that raises
Raise(exception, tr) ==
    [outcome |-> exception, returned |-> << >>, nb |-> None, trace |-> tr]

\* a call that returns a list of Examples
Return(examples, tr) ==
    [outcome |-> "ok", returned |-> examples, nb |-> None, trace |-> tr]

\* the list of rules the variation name selects; the name is known
RelevantRules(variation_name) ==
    IF variation_name = None THEN heap[rules]
    ELSE heap[variations[variation_name[1]]]

UnknownVariation(variation_name) ==
    variation_name # None /\ variation_name[1] \notin DOMAIN variations

\* generate_random once chosen_rule is not None, the random draws being
\* rolls, picks and to_upper (the outcome of randomly_change_case)
GenerateFromRule(chosen_rule, arg_value, rolls, picks, to_upper) ==
    LET tok == GenerateTokens(chosen_rule, 1, NewRandgens, rolls, picks)
        \* `self.can_have_casegen` is the bound method, which is always true
        cased == IF casegen
                 THEN (IF to_upper THEN with_leading_upper(tok.text)
                       ELSE with_leading_lower(tok.text))
                 ELSE tok.text
        replaced == ReplaceArg(cased, arg_value, argument_identifier)
        tr == [chosen |-> Some(chosen_rule), rolls |-> rolls, flags |-> tok.flags,
               generated |-> <<Example(tok.text, tok.entities)>>,
               before_arg |-> <<cased>>, after_arg |-> << >>]
    IN  IF replaced = None THEN Raise("re.error", tr)
        ELSE Return(<<Example(replaced[1], tok.entities)>>,
                    [tr EXCEPT !.after_arg = <<replaced[1]>>])

\* every way generate_random(variation_name, arg_value) may end
generate_random(variation_name, arg_value) ==
    IF UnknownVariation(variation_name) THEN {Raise("SyntaxError", NoTrace)}
    ELSE UNION {
        IF chosen = None THEN {Return(<<EmptyExample>>, NoTrace)}
        ELSE {GenerateFromRule(chosen[1], arg_value, rolls, picks, to_upper) :
                rolls \in Rolls(chosen[1]), picks \in Picks(chosen[1]),
                to_upper \in IF casegen THEN BOOLEAN ELSE {FALSE}}
        : chosen \in choose(RelevantRules(variation_name))}

----------------------------------------------------------------------------
(* UnitDefinition: generate_all and get_max_nb_generated_examples *)

\* can_have_casegen(): some rule of self.rules starts with a node that can
can_have_casegen ==
    \E i \in 1..Len(heap[rules]) :
        Len(heap[rules][i]) > 0 /\ NodeCanHaveCasegen(heap[rules][i][1])

generate_all(variation_name, arg_value) ==
    IF UnknownVariation(variation_name) THEN Raise("SyntaxError", NoTrace)
    ELSE IF RelevantRules(variation_name) = << >> THEN Raise("SyntaxError", NoTrace)
    ELSE LET generated_examples == ExamplesFromRules(RelevantRules(variation_name), 1)
             replaced == [i \in 1..Len(generated_examples) |->
                            ReplaceArg(generated_examples[i].text, arg_value,
                                       argument_identifier)]
             tr == [NoTrace EXCEPT
                        !.generated = generated_examples,
                        !.before_arg = [i \in 1..Len(generated_examples) |->
                                            generated_examples[i].text]]
         IN  IF \E i \in 1..Len(replaced) : replaced[i] = None
             THEN Raise("re.error", tr)
             ELSE LET with_arg == [i \in 1..Len(generated_examples) |->
                                    Example(replaced[i][1],
                                            generated_examples[i].entities)]
                  IN  Return(IF casegen /\ can_have_casegen
                             THEN CasegenExamples(with_arg, 1)
                             ELSE with_arg,
                             [tr EXCEPT !.after_arg =
                                [i \in 1..Len(with_arg) |-> with_arg[i].text]])

\* a count that answers 0 for a variation it does not know
get_max_nb_defaults(variation_name) ==
    [outcome |-> "ok", returned |-> << >>,
     nb |-> Some(IF UnknownVariation(variation_name) THEN 0
                 ELSE NbPossibleEx(RelevantRules(variation_name), 1)),
     trace |-> NoTrace]

get_max_nb_generated_examples(variation_name) ==
    IF UnknownVariation(variation_name) THEN Raise("SyntaxError", NoTrace)
    ELSE LET nb_possible_ex == NbPossibleEx(RelevantRules(variation_name), 1)
         IN  [outcome |-> "ok", returned |-> << >>,
              nb |-> Some(IF casegen THEN nb_possible_ex * 2 ELSE nb_possible_ex),
              trace |-> NoTrace]

\* a generation call that consumes the first rule of the unit
GenerationCallConsumes(op, variation_name, arg_value, result) ==
    /\ call' = [op |-> op, variation_name |-> variation_name, arg_value |-> arg_value]
    /\ outcome' = result.outcome
    /\ returned' = result.returned
    /\ returned_nb' = result.nb
    /\ trace' = result.trace
    /\ heap' = [heap EXCEPT ![rules] = IF @ = << >> THEN @ ELSE Tail(@)]
    /\ UNCHANGED <<name, argument_identifier, casegen, rules, variations,
                   callerLists, added, tokens, parsed>>

\* what a generation call leaves: its result, and the unit as it was
GenerationCallEnds(op, variation_name, arg_value, result) ==
    /\ call' = [op |-> op, variation_name |-> variation_name, arg_value |-> arg_value]
    /\ outcome' = result.outcome
    /\ returned' = result.returned
    /\ returned_nb' = result.nb
    /\ trace' = result.trace
    /\ UNCHANGED <<name, argument_identifier, casegen, heap, rules, variations,
                   callerLists, added, tokens, parsed>>

QueryValues == {None} \cup {Some(v) : v \in ArgValues}

GenerateRandom ==
    \E variation_name \in QueryNames, arg_value \in QueryValues :
        \E result \in generate_random(variation_name, arg_value) :
            GenerationCallEnds("generate_random", variation_name, arg_value, result)

GenerateAll ==
    \E variation_name \in QueryNames, arg_value \in QueryValues :
        GenerationCallEnds("generate_all", variation_name, arg_value,
                           generate_all(variation_name, arg_value))

GetMaxNbGeneratedExamples ==
    \E variation_name \in QueryNames :
        GenerationCallEnds("get_max_nb_generated_examples", variation_name, None,
                           get_max_nb_generated_examples(variation_name))

----------------------------------------------------------------------------
(* The specifications *)

\* a unit built with add_rule and add_rules from lists the caller may share
Init ==
    /\ ParserIdle
    /\ \E n \in {"u", ""}, rs \in {None} \cup {Some(l) : l \in NewListContents} :
            Construct(n, rs, Some(<<"x">>), FALSE)

BuildAddRule == AddRule(BuildRules, AddNames, MaxRules)

Next ==
    \/ BuildAddRule
    \/ AddNewRules
    \/ AddHeldRules
    \/ GenerateRandom
    \/ GenerateAll
    \/ GetMaxNbGeneratedExamples

Spec == Init /\ [][Next]_vars

\* a unit built with add_rule from any rules, then asked to generate
InitGen ==
    /\ ParserIdle
    /\ \E cg \in BOOLEAN, arg \in {None, Some(<<"x">>)} :
            Construct("u", None, arg, cg)

GenAddRule == AddRule(GenRules, {None, Some("a")}, MaxGenRules)

NextGen ==
    \/ GenAddRule
    \/ GenerateRandom
    \/ GenerateAll
    \/ GetMaxNbGeneratedExamples

SpecGen == InitGen /\ [][NextGen]_vars

----------------------------------------------------------------------------
(* Properties of UnitDefinition *)

GenerationOps == {"generate_random", "generate_all", "get_max_nb_generated_examples"}

RESERVED_VARIATION_NAMES == {"all-variations-aggregation", "rules", "nb-gen-asked", "arg"}

\* C1: a generation call (generate_random, generate_all or
\* get_max_nb_generated_examples) given a variation name that is not a key of
\* variations raises SyntaxError and returns neither examples nor a count.
C1_UnknownVariationRaises ==
    (/\ call.op \in GenerationOps
     /\ call.variation_name # None
     /\ call.variation_name[1] \notin DOMAIN variations)
    => (outcome = "SyntaxError" /\ returned = << >> /\ returned_nb = None)

\* C1 witness: generate_all was asked for the unknown variation `a` of a unit
\* that has rules and another variation, and raised.
C1_Witness ==
    /\ call.op = "generate_all"
    /\ call.variation_name = Some("a")
    /\ DOMAIN variations = {"rules"}
    /\ heap[rules] # << >>
    /\ outcome = "SyntaxError"

\* C7: the unit's name is not empty and no key of variations is the empty
\* string or a reserved variation name.
C7_NamesAreLegal ==
    /\ name # ""
    /\ \A v \in DOMAIN variations : v # "" /\ v \notin RESERVED_VARIATION_NAMES

\* C8: for every variation name v, the list variations[v] is the sequence of
\* the rules added under v, in the order they were added.
C8_VariationsHoldWhatWasAdded ==
    \A v \in DOMAIN variations : heap[variations[v]] = added[v]

\* C9: a step that is a generation call leaves name, argument_identifier,
\* casegen, the rules list and the variations mapping (keys and lists) as
\* they were; so only add_rule and add_rules change them.
C9_GenerationLeavesUnit ==
    [][call'.op \in GenerationOps =>
        UNCHANGED <<name, argument_identifier, casegen, rules, variations, heap>>]_vars

\* C9 witness: generate_all returned examples for a variation of a unit.
C9_Witness ==
    /\ call.op = "generate_all"
    /\ call.variation_name = Some("a")
    /\ outcome = "ok"
    /\ returned # << >>
    /\ Len(heap[rules]) > Len(heap[variations["a"]])

----------------------------------------------------------------------------
(* Properties of the generation *)

\* the examples of a generate_all call after its argument step
WithArg ==
    [i \in 1..Len(trace.generated) |->
        Example(trace.after_arg[i], trace.generated[i].entities)]

\* C2: the count get_max_nb_generated_examples returns for a selection is the
\* number of examples generate_all returns for it, whenever generate_all
\* succeeds, with and without casegen.
C2_CountIsNumberOfExamples ==
    (/\ call.op = "get_max_nb_generated_examples"
     /\ outcome = "ok"
     /\ generate_all(call.variation_name, None).outcome = "ok")
    => returned_nb = Some(Len(generate_all(call.variation_name, None).returned))

\* every example of `examples` followed by every example of `possibilities`,
\* the first varying slowest
Cross(examples, possibilities) ==
    [k \in 1..(Len(examples) * Len(possibilities)) |->
        LET a == examples[((k - 1) \div Len(possibilities)) + 1]
            b == possibilities[((k - 1) % Len(possibilities)) + 1]
        IN  Example(a.text \o b.text, a.entities \o b.entities)]

\* the cartesian product of the outputs of the nodes i.. of a rule
RECURSIVE CartesianProduct(_, _)
CartesianProduct(rule, i) ==
    IF i = Len(rule) THEN rule[i].outs
    ELSE Cross(rule[i].outs, CartesianProduct(rule, i + 1))

\* the products of the rules i.. of a list, one after the other (a rule
\* without nodes has no example)
RECURSIVE ProductsOfRules(_, _)
ProductsOfRules(list, i) ==
    IF i > Len(list) THEN << >>
    ELSE (IF list[i] = << >> THEN << >> ELSE CartesianProduct(list[i], 1))
            \o ProductsOfRules(list, i + 1)

\* C3: without casegen and without argument substitution, generate_all
\* returns, in rule order, the cartesian products of the selected rules
\* (so a rule with a node that has no output contributes nothing).
C3_GenerateAllIsProduct ==
    (/\ call.op = "generate_all"
     /\ outcome = "ok"
     /\ ~casegen
     /\ (call.arg_value = None \/ argument_identifier = None))
    => returned = ProductsOfRules(RelevantRules(call.variation_name), 1)

\* the first node of the rule that has the randgen name of node i
FirstNamed(rule, i) ==
    CHOOSE j \in 1..i :
        /\ rule[j].randgen = rule[i].randgen
        /\ \A k \in 1..(j - 1) : rule[k].randgen # rule[i].randgen

\* C4: in one generate_random call the nodes of the chosen rule that share a
\* randgen name all generate or are all left out, the decision being the one
\* rolled in this call at the first node that has the name; a node without
\* a randgen name generates.
C4_OneDecisionPerRandgenName ==
    (call.op = "generate_random" /\ trace.chosen # None)
    => LET rule == trace.chosen[1]
       IN  /\ Len(trace.flags) = Len(rule)
           /\ \A i \in 1..Len(rule) :
                /\ rule[i].randgen = None => trace.flags[i]
                /\ rule[i].randgen # None =>
                        trace.flags[i] = trace.rolls[FirstNamed(rule, i)]
           /\ \A i, j \in 1..Len(rule) :
                (rule[i].randgen # None /\ rule[i].randgen = rule[j].randgen)
                    => trace.flags[i] = trace.flags[j]

\* C4 witness: a rule with two nodes of the randgen name `g`, the roll at the
\* first being not to generate and the second one's roll to generate: both
\* were left out.
C4_Witness ==
    /\ call.op = "generate_random"
    /\ outcome = "ok"
    /\ trace.chosen = Some(<<Opt, Opt>>)
    /\ trace.rolls = <<FALSE, TRUE>>
    /\ trace.flags = <<FALSE, FALSE>>
    /\ returned = <<EmptyExample>>

\* what case generation makes of the examples i.. : an example whose
\* leading character may change case gives its lowercase then its uppercase
\* variant, any other example stays as it is
RECURSIVE Duplicated(_, _)
Duplicated(examples, i) ==
    IF i > Len(examples) THEN << >>
    ELSE (IF may_change_leading_case(examples[i].text)
          THEN <<Example(with_leading_lower(examples[i].text), examples[i].entities),
                 Example(with_leading_upper(examples[i].text), examples[i].entities)>>
          ELSE <<examples[i]>>)
            \o Duplicated(examples, i + 1)

\* C5: generate_all on a unit with casegen replaces every example whose
\* leading character changes under case forcing by its lowercase and its
\* uppercase variant, and keeps any other example once.
C5_CasegenDuplicates ==
    (call.op = "generate_all" /\ outcome = "ok" /\ casegen)
    => returned = Duplicated(WithArg, 1)

\* the unescaped occurrences of `$<arg>` in text
Occurrences(text, arg) ==
    {i \in 1..Len(text) :
        /\ text[i] = "$"
        /\ i > 1 => text[i - 1] # "\\"
        /\ i + Len(arg) <= Len(text)
        /\ \A k \in 1..Len(arg) : text[i + k] = arg[k]}

\* what position i of text becomes: the value at an occurrence, nothing for
\* the rest of the occurrence and for the escape character of an escaped `$`
Becomes(text, i, arg, value) ==
    IF i \in Occurrences(text, arg) THEN value
    ELSE IF \E m \in Occurrences(text, arg) : m < i /\ i <= m + Len(arg) THEN << >>
    ELSE IF text[i] = "\\" /\ i < Len(text) /\ text[i + 1] = "$" THEN << >>
    ELSE <<text[i]>>

RECURSIVE Substituted(_, _, _, _)
Substituted(text, i, arg, value) ==
    IF i > Len(text) THEN << >>
    ELSE Becomes(text, i, arg, value) \o Substituted(text, i + 1, arg, value)

\* C6: generate_random and generate_all, given an arg_value on a unit that
\* has an argument identifier, replace every unescaped `$<identifier>` of the
\* text by arg_value and turn every escaped `\$` into `$`; otherwise the
\* argument step leaves the text as it is.
C6_ArgumentIsSubstituted ==
    call.op \in {"generate_random", "generate_all"}
    => /\ outcome # "re.error"
       /\ outcome = "ok" =>
            trace.after_arg =
                [i \in 1..Len(trace.before_arg) |->
                    IF call.arg_value = None \/ argument_identifier = None
                    THEN trace.before_arg[i]
                    ELSE Substituted(trace.before_arg[i], 1,
                                     argument_identifier[1], call.arg_value[1])]

----------------------------------------------------------------------------
(* parser_utils: check_declaration_validity *)

ALIAS_SYM == "~"

VARIATION_SYM == "#"

RAND_GEN_SYM == "?"

PERCENT_GEN_SYM == "/"

CASE_GEN_SYM == "&"

\* the tokens of the interior of a declaration: the modifier symbols, another
\* special symbol, a plain name and a reserved variation name
DeclTokens ==
    {CASE_GEN_SYM, VARIATION_SYM, ARG_SYM, RAND_GEN_SYM, PERCENT_GEN_SYM,
     ALIAS_SYM, "n", "rules"}

is_special_sym(text) ==
    text \in {ALIAS_SYM, "@", "%", "[", "]", VARIATION_SYM, RAND_GEN_SYM,
              PERCENT_GEN_SYM, CASE_GEN_SYM, ARG_SYM}

\* list.count(sym)
count(list, sym) == Cardinality({i \in 1..Len(list) : list[i] = sym})

\* list.index(sym), counted from 0; sym is in the list
index(list, sym) ==
    (CHOOSE i \in 1..Len(list) :
        list[i] = sym /\ \A j \in 1..(i - 1) : list[j] # sym) - 1

\* tokens_unit_inside[k], k counted from 0
at(list, k) == list[k + 1]

\* the checks on the variation modifier
VariationIsLegal(tokens_unit_inside) ==
    LET variation_count == count(tokens_unit_inside, VARIATION_SYM)
        variation_name_index == index(tokens_unit_inside, VARIATION_SYM) + 1
    IN  /\ variation_count <= 1
        /\ variation_count = 1 =>
            /\ variation_name_index < Len(tokens_unit_inside)
            /\ ~is_special_sym(at(tokens_unit_inside, variation_name_index))
            /\ at(tokens_unit_inside, variation_name_index)
                    \notin RESERVED_VARIATION_NAMES

\* the checks on the argument modifier
ArgumentIsLegal(tokens_unit_inside) ==
    LET argument_count == count(tokens_unit_inside, ARG_SYM)
        argument_name_index == index(tokens_unit_inside, ARG_SYM) + 1
    IN  /\ argument_count <= 1
        /\ argument_count = 1 =>
            /\ argument_name_index < Len(tokens_unit_inside)
            /\ ~is_special_sym(at(tokens_unit_inside, argument_name_index))

\* check_declaration_validity: "ok" when it returns, else the exception
check_declaration_validity(tokens_unit_inside) ==
    LET casegen_count == count(tokens_unit_inside, CASE_GEN_SYM)
    IN  IF casegen_count > 1 THEN "SyntaxError"
        ELSE IF casegen_count = 1 /\ index(tokens_unit_inside, CASE_GEN_SYM) # 0
        THEN "SyntaxError"
        ELSE IF casegen_count = 0 /\ Len(tokens_unit_inside) = 0
        THEN "IndexError"
        ELSE IF casegen_count = 0 /\ is_special_sym(at(tokens_unit_inside, 0))
        THEN "SyntaxError"
        ELSE IF casegen_count = 1 /\ Len(tokens_unit_inside) <= 1
        THEN "SyntaxError"
        ELSE IF casegen_count = 1 /\ is_special_sym(at(tokens_unit_inside, 1))
        THEN "SyntaxError"
        ELSE IF ~VariationIsLegal(tokens_unit_inside) THEN "SyntaxError"
        ELSE IF ~ArgumentIsLegal(tokens_unit_inside) THEN "SyntaxError"
        ELSE IF count(tokens_unit_inside, RAND_GEN_SYM) > 0 THEN "SyntaxError"
        ELSE IF count(tokens_unit_inside, PERCENT_GEN_SYM) > 0 THEN "SyntaxError"
        ELSE "ok"

\* no unit operation is called while the parser functions are
UnitIdle == Construct("u", None, None, FALSE)

\* the parser is given the interior of a declaration
InitDecl ==
    /\ UnitIdle
    /\ tokens \in UNION {[1..n -> DeclTokens] : n \in 0..MaxTokens}
    /\ parsed = NotParsed

CheckDeclarationValidity ==
    /\ parsed = NotParsed
    /\ parsed' = [fn |-> "check_declaration_validity",
                  verdict |-> check_declaration_validity(tokens),
                  value |-> None]
    /\ UNCHANGED <<name, argument_identifier, casegen, heap, rules, variations,
                   callerLists, added, call, outcome, returned, returned_nb,
                   trace, tokens>>

NextDecl == CheckDeclarationValidity

SpecDecl == InitDecl /\ [][NextDecl]_vars

\* the span after its leading casegen marker, if it has one
AfterCasegen(span) ==
    IF span # << >> /\ span[1] = CASE_GEN_SYM THEN Tail(span) ELSE span

\* a marker of the span is followed by no name
Unnamed(span, marker) ==
    \E i \in 1..Len(span) :
        span[i] = marker /\ (i = Len(span) \/ is_special_sym(span[i + 1]))

\* the span breaks one of the rules of a declaration
Illegal(span) ==
    \/ count(span, CASE_GEN_SYM) > 1
    \/ \E i \in 2..Len(span) : span[i] = CASE_GEN_SYM
    \/ AfterCasegen(span) = << >>
    \/ is_special_sym(AfterCasegen(span)[1])
    \/ count(span, VARIATION_SYM) > 1
    \/ Unnamed(span, VARIATION_SYM)
    \/ \E i \in 1..(Len(span) - 1) :
        span[i] = VARIATION_SYM /\ span[i + 1] \in RESERVED_VARIATION_NAMES
    \/ count(span, ARG_SYM) > 1
    \/ Unnamed(span, ARG_SYM)
    \/ \E i \in 1..Len(span) : span[i] \in {RAND_GEN_SYM, PERCENT_GEN_SYM}

\* C10: check_declaration_validity raises SyntaxError exactly for the spans
\* (the empty one included) that break a rule of a declaration, and returns
\* for the others.
C10_DeclarationValidity ==
    parsed.fn = "check_declaration_validity"
    => parsed.verdict = (IF Illegal(tokens) THEN "SyntaxError" ELSE "ok")

\* the same for the spans that are not empty
C10_NonEmptySpans ==
    (parsed.fn = "check_declaration_validity" /\ tokens # << >>)
    => parsed.verdict = (IF Illegal(tokens) THEN "SyntaxError" ELSE "ok")

----------------------------------------------------------------------------
(* parser_utils: a parser function applied to a list of tokens *)

\* the token lists of up to MaxTokens tokens of an alphabet
Spans(alphabet) == UNION {[1..n -> alphabet] : n \in 0..MaxTokens}

\* a parser function is given a token list of the alphabet
ParserGiven(alphabet) ==
    /\ UnitIdle
    /\ tokens \in Spans(alphabet)
    /\ parsed = NotParsed

\* the function returned a value
Returned(value) == [verdict |-> "ok", value |-> value]

\* the function raised an exception
Raised(exception) == [verdict |-> exception, value |-> None]

\* the parser function fn is applied to the tokens and ends with result
ParserCall(fn, result) ==
    /\ parsed = NotParsed
    /\ parsed' = [fn |-> fn, verdict |-> result.verdict, value |-> result.value]
    /\ UNCHANGED <<name, argument_identifier, casegen, heap, rules, variations,
                   callerLists, added, call, outcome, returned, returned_nb,
                   trace, tokens>>

\* list[a:b], a and b counted from 0 and within the list
Slice(list, a, b) == SubSeq(list, a + 1, b)

----------------------------------------------------------------------------
(* parser_utils: get_declaration_interior, get_annotation_interior *)

UNIT_OPEN_SYM == "["

UNIT_CLOSE_SYM == "]"

ANNOTATION_OPEN_SYM == "("

ANNOTATION_CLOSE_SYM == ")"

InteriorTokens ==
    {UNIT_OPEN_SYM, UNIT_CLOSE_SYM, ANNOTATION_OPEN_SYM, ANNOTATION_CLOSE_SYM, "n"}

\* while starting_index < length and tokens[starting_index] != open_sym
RECURSIVE StartingIndex(_, _, _)
StartingIndex(list, open_sym, starting_index) ==
    IF starting_index < Len(list) /\ at(list, starting_index) # open_sym
    THEN StartingIndex(list, open_sym, starting_index + 1)
    ELSE starting_index

\* while end_index < length and nb_closing_brackets_expected > 0
RECURSIVE EndIndex(_, _, _, _, _)
EndIndex(list, open_sym, close_sym, end_index, nb_closing_brackets_expected) ==
    IF end_index < Len(list) /\ nb_closing_brackets_expected > 0
    THEN EndIndex(list, open_sym, close_sym, end_index + 1,
                  IF at(list, end_index) = open_sym
                  THEN nb_closing_brackets_expected + 1
                  ELSE IF at(list, end_index) = close_sym
                  THEN nb_closing_brackets_expected - 1
                  ELSE nb_closing_brackets_expected)
    ELSE end_index

\* get_declaration_interior stopping at the first `]`
get_declaration_interior_flat(list) ==
    LET starting_index == StartingIndex(list, UNIT_OPEN_SYM, 0) + 1
        end_index == StartingIndex(list, UNIT_CLOSE_SYM, starting_index)
    IN  IF starting_index >= Len(list) THEN Returned(None)
        ELSE Returned(Some(Slice(list, starting_index, end_index)))

get_declaration_interior(list) ==
    LET length == Len(list)
        starting_index == StartingIndex(list, UNIT_OPEN_SYM, 0) + 1
        end_index ==
            EndIndex(list, UNIT_OPEN_SYM, UNIT_CLOSE_SYM, starting_index, 1) - 1
    IN  IF starting_index >= length THEN Returned(None)
        ELSE IF end_index >= length THEN Returned(None)
        ELSE Returned(Some(Slice(list, starting_index, end_index)))

get_annotation_interior(list) ==
    LET length == Len(list)
        starting_index == StartingIndex(list, ANNOTATION_OPEN_SYM, 0) + 1
        end_index ==
            EndIndex(list, ANNOTATION_OPEN_SYM, ANNOTATION_CLOSE_SYM,
                     starting_index, 1)
    IN  IF starting_index >= length THEN Returned(None)
        ELSE IF end_index >= length THEN Returned(None)
        ELSE Returned(Some(Slice(list, starting_index, end_index)))

InitInterior == ParserGiven(InteriorTokens)

GetDeclarationInterior ==
    ParserCall("get_declaration_interior", get_declaration_interior(tokens))

GetAnnotationInterior ==
    ParserCall("get_annotation_interior", get_annotation_interior(tokens))

NextInterior ==
    \/ GetDeclarationInterior
    \/ GetAnnotationInterior

SpecInterior == InitInterior /\ [][NextInterior]_vars

\* the position of the first open_sym of the span, 0 when it has none
FirstOpen(span, open_sym) ==
    IF \E i \in 1..Len(span) : span[i] = open_sym
    THEN CHOOSE i \in 1..Len(span) :
            span[i] = open_sym /\ \A k \in 1..(i - 1) : span[k] # open_sym
    ELSE 0

\* how many more open_sym than close_sym the positions i..j of the span hold
Depth(span, open_sym, close_sym, i, j) ==
    Cardinality({k \in i..j : span[k] = open_sym})
        - Cardinality({k \in i..j : span[k] = close_sym})

\* the positions after the first open_sym where the depth is back to zero
Closings(span, open_sym, close_sym) ==
    {j \in (FirstOpen(span, open_sym) + 1)..Len(span) :
        /\ FirstOpen(span, open_sym) > 0
        /\ Depth(span, open_sym, close_sym, FirstOpen(span, open_sym), j) = 0}

\* the position of the close_sym that matches the first open_sym
MatchingClose(span, open_sym, close_sym) ==
    CHOOSE j \in Closings(span, open_sym, close_sym) :
        \A k \in Closings(span, open_sym, close_sym) : j <= k

\* the tokens strictly between the first open_sym and its matching close_sym
Between(span, open_sym, close_sym) ==
    SubSeq(span, FirstOpen(span, open_sym) + 1,
           MatchingClose(span, open_sym, close_sym) - 1)

\* C11: when the first `[` of the tokens has its matching `]`,
\* get_declaration_interior returns the tokens strictly between the two,
\* whatever comes before the `[` or after the `]`.
C11_DeclarationInterior ==
    (/\ parsed.fn = "get_declaration_interior"
     /\ Closings(tokens, UNIT_OPEN_SYM, UNIT_CLOSE_SYM) # {})
    => /\ parsed.verdict = "ok"
       /\ parsed.value = Some(Between(tokens, UNIT_OPEN_SYM, UNIT_CLOSE_SYM))

\* C11 witness: the interior is a nested pair, so the first `]` is not the
\* matching one.
C11_Witness ==
    /\ parsed.fn = "get_declaration_interior"
    /\ tokens = <<"[", "[", "]", "]">>
    /\ parsed.value = Some(<<"[", "]">>)

\* C12: when the tokens hold no `[`, or their first `[` is never closed,
\* get_declaration_interior returns None.
C12_NoDeclarationInterior ==
    (/\ parsed.fn = "get_declaration_interior"
     /\ Closings(tokens, UNIT_OPEN_SYM, UNIT_CLOSE_SYM) = {})
    => /\ parsed.verdict = "ok"
       /\ parsed.value = None

\* C13: get_annotation_interior returns the tokens strictly between the
\* first `(` and its matching `)` whenever that `)` exists, and None exactly
\* when there is no `(` or it is never closed.
C13_AnnotationInterior ==
    parsed.fn = "get_annotation_interior"
    => /\ parsed.verdict = "ok"
       /\ parsed.value =
            (IF Closings(tokens, ANNOTATION_OPEN_SYM, ANNOTATION_CLOSE_SYM) # {}
             THEN Some(Between(tokens, ANNOTATION_OPEN_SYM, ANNOTATION_CLOSE_SYM))
             ELSE None)

----------------------------------------------------------------------------
(* parser_utils: remove_escapement *)

\* the characters of the texts: the escape character, the argument symbol,
\* another special character and a letter
EscapeChars == {ESCAPE_SYM, ARG_SYM, "?", "a"}

\* the loop `for c in text`, from the character i on
RECURSIVE EscapementLoop(_, _, _, _)
EscapementLoop(text, i, result, escaped) ==
    IF i > Len(text) THEN result
    ELSE LET c == text[i]
         IN  IF escaped /\ c = ARG_SYM
             THEN EscapementLoop(text, i + 1, result \o <<ESCAPE_SYM, ARG_SYM>>, FALSE)
             ELSE IF escaped
             THEN EscapementLoop(text, i + 1, Append(result, c), FALSE)
             ELSE IF c = ESCAPE_SYM
             THEN EscapementLoop(text, i + 1, result, TRUE)
             ELSE EscapementLoop(text, i + 1, Append(result, c), FALSE)

\* remove_escapement returning every text as it is
remove_escapement_kept(text) == Returned(text)

remove_escapement(text) ==
    IF \A i \in 1..Len(text) : text[i] # ESCAPE_SYM
    THEN Returned(text)
    ELSE Returned(EscapementLoop(text, 1, << >>, FALSE))

InitEscape == ParserGiven(EscapeChars)

RemoveEscapement == ParserCall("remove_escapement", remove_escapement(tokens))

NextEscape == RemoveEscapement

SpecEscape == InitEscape /\ [][NextEscape]_vars

\* what the scan makes of the text from position i on
RECURSIVE Unescaped(_, _)
Unescaped(text, i) ==
    IF i > Len(text) THEN << >>
    ELSE IF text[i] # ESCAPE_SYM THEN <<text[i]>> \o Unescaped(text, i + 1)
    ELSE IF i = Len(text) THEN << >>
    ELSE IF text[i + 1] = ARG_SYM
    THEN <<ESCAPE_SYM, ARG_SYM>> \o Unescaped(text, i + 2)
    ELSE <<text[i + 1]>> \o Unescaped(text, i + 2)

\* C14: remove_escapement returns, without raising, the text in which an
\* escaped `$` is kept as `\$`, any other escaped character (the escape
\* character included) is left alone without its escape character, a final
\* escape character is dropped and every other character is copied.
C14_RemoveEscapement ==
    parsed.fn = "remove_escapement"
    => /\ parsed.verdict = "ok"
       /\ parsed.value = Unescaped(tokens, 1)

\* C14 witness: an escaped `$` and another escaped character in one text.
C14_Witness ==
    /\ parsed.fn = "remove_escapement"
    /\ tokens = <<ESCAPE_SYM, ARG_SYM, ESCAPE_SYM, "?">>
    /\ parsed.value = <<ESCAPE_SYM, ARG_SYM, "?">>

----------------------------------------------------------------------------
(* parser_utils: next_sub_rule_tokens, next_choice_tokens *)

SLOT_SYM == "@"

INTENT_SYM == "%"

CHOICE_OPEN_SYM == "{"

CHOICE_CLOSE_SYM == "}"

CHOICE_SEP == "/"

\* the tokens of a rule and of the interior of a choice
RuleTokens ==
    {UNIT_OPEN_SYM, UNIT_CLOSE_SYM, CHOICE_OPEN_SYM, CHOICE_CLOSE_SYM,
     ALIAS_SYM, SLOT_SYM, INTENT_SYM, CHOICE_SEP, RAND_GEN_SYM, CASE_GEN_SYM, "n"}

is_start_unit_sym(char) ==
    \/ char = UNIT_OPEN_SYM
    \/ char = ALIAS_SYM
    \/ char = SLOT_SYM
    \/ char = INTENT_SYM

\* the loop `for token in tokens` of next_sub_rule_tokens from token i on;
\* yielded is the list of the sub-rules yielded so far
RECURSIVE SubRuleLoop(_, _, _, _, _, _)
SubRuleLoop(list, i, yielded, current_sub_rule, stop_with_char, reading_sub_rule) ==
    IF i > Len(list) THEN yielded
    ELSE LET token == list[i]
         IN  IF reading_sub_rule
             THEN IF Some(token) = stop_with_char
                  THEN SubRuleLoop(list, i + 1,
                                   Append(yielded, Append(current_sub_rule, token)),
                                   << >>, None, FALSE)
                  ELSE SubRuleLoop(list, i + 1, yielded,
                                   Append(current_sub_rule, token),
                                   stop_with_char, TRUE)
             ELSE IF is_start_unit_sym(token)
             THEN SubRuleLoop(list, i + 1, yielded, Append(current_sub_rule, token),
                              Some(UNIT_CLOSE_SYM), TRUE)
             ELSE IF token = UNIT_OPEN_SYM
             THEN SubRuleLoop(list, i + 1, yielded, Append(current_sub_rule, token),
                              Some(UNIT_CLOSE_SYM), TRUE)
             ELSE IF token = CHOICE_OPEN_SYM
             THEN SubRuleLoop(list, i + 1, yielded, Append(current_sub_rule, token),
                              Some(CHOICE_CLOSE_SYM), TRUE)
             ELSE SubRuleLoop(list, i + 1, Append(yielded, <<token>>),
                              current_sub_rule, stop_with_char, FALSE)

\* next_sub_rule_tokens yielding every token as a sub-rule of its own
next_sub_rule_words(list) == Returned([i \in 1..Len(list) |-> <<list[i]>>])

\* next_sub_rule_tokens: the list of the sub-rules the generator yields
next_sub_rule_tokens(list) ==
    Returned(SubRuleLoop(list, 1, << >>, << >>, None, FALSE))

\* the loop `for token in choice_interior_tokens` from token i on, and the
\* yield that follows it
RECURSIVE ChoiceLoop(_, _, _, _)
ChoiceLoop(list, i, yielded, current_choice) ==
    IF i > Len(list) THEN Append(yielded, current_choice)
    ELSE LET token == list[i]
         IN  IF token = CASE_GEN_SYM
             THEN ChoiceLoop(list, i + 1, yielded, current_choice)
             ELSE IF token = RAND_GEN_SYM
             THEN Append(yielded, current_choice)
             ELSE IF token = CHOICE_SEP
             THEN ChoiceLoop(list, i + 1, Append(yielded, current_choice), << >>)
             ELSE ChoiceLoop(list, i + 1, yielded, Append(current_choice, token))

\* next_choice_tokens without its last alternative when that one is empty
next_choice_tokens_nonempty(list) ==
    LET choices == ChoiceLoop(list, 1, << >>, << >>)
    IN  Returned(IF choices[Len(choices)] = << >>
                 THEN SubSeq(choices, 1, Len(choices) - 1)
                 ELSE choices)

\* next_choice_tokens: the list of the choices the generator yields
next_choice_tokens(list) == Returned(ChoiceLoop(list, 1, << >>, << >>))

InitRule == ParserGiven(RuleTokens)

NextSubRuleTokens == ParserCall("next_sub_rule_tokens", next_sub_rule_tokens(tokens))

NextChoiceTokens == ParserCall("next_choice_tokens", next_choice_tokens(tokens))

NextRule ==
    \/ NextSubRuleTokens
    \/ NextChoiceTokens

SpecRule == InitRule /\ [][NextRule]_vars

\* the tokens that open a bracketed construct
Openers == {UNIT_OPEN_SYM, ALIAS_SYM, SLOT_SYM, INTENT_SYM, CHOICE_OPEN_SYM}

\* the token that ends the construct an opener opens
Closer(opener) ==
    IF opener = CHOICE_OPEN_SYM THEN CHOICE_CLOSE_SYM ELSE UNIT_CLOSE_SYM

\* the positions after i that hold sym
After(span, i, sym) == {j \in (i + 1)..Len(span) : span[j] = sym}

\* the first position after i that holds sym
FirstAfter(span, i, sym) ==
    CHOOSE j \in After(span, i, sym) : \A k \in After(span, i, sym) : j <= k

\* every construct opened from position i on, outside a construct, is closed
RECURSIVE Terminated(_, _)
Terminated(span, i) ==
    IF i > Len(span) THEN TRUE
    ELSE IF span[i] \notin Openers THEN Terminated(span, i + 1)
    ELSE /\ After(span, i, Closer(span[i])) # {}
         /\ Terminated(span, FirstAfter(span, i, Closer(span[i])) + 1)

\* the sub-rules of the span from position i on: a token outside a construct
\* alone, a construct from its opener to the first closer after it
RECURSIVE SubRules(_, _)
SubRules(span, i) ==
    IF i > Len(span) THEN << >>
    ELSE IF span[i] \notin Openers THEN <<(<<span[i]>>)>> \o SubRules(span, i + 1)
    ELSE LET j == FirstAfter(span, i, Closer(span[i]))
         IN  <<SubSeq(span, i, j)>> \o SubRules(span, j + 1)

\* C15: on tokens whose constructs are all closed, next_sub_rule_tokens
\* yields, in order, every token outside a construct as a sub-rule of its own
\* and, for every `[`, `~`, `@`, `%` (or `{`) outside a construct, the tokens
\* from it to the first `]` (or `}`) after it, nested openers not counted.
C15_SubRules ==
    (parsed.fn = "next_sub_rule_tokens" /\ Terminated(tokens, 1))
    => /\ parsed.verdict = "ok"
       /\ parsed.value = SubRules(tokens, 1)

\* C15 witness: a word, then a word group that holds a second `[` and ends
\* at the first `]`.
C15_Witness ==
    /\ parsed.fn = "next_sub_rule_tokens"
    /\ tokens = <<"n", UNIT_OPEN_SYM, UNIT_OPEN_SYM, UNIT_CLOSE_SYM>>
    /\ parsed.value = <<(<<"n">>), <<UNIT_OPEN_SYM, UNIT_OPEN_SYM, UNIT_CLOSE_SYM>> >>

\* the tokens before the first random-generation marker
BeforeRandgen(span) ==
    IF After(span, 0, RAND_GEN_SYM) = {} THEN span
    ELSE SubSeq(span, 1, FirstAfter(span, 0, RAND_GEN_SYM) - 1)

\* the position of the m-th separator of the span (0 for m = 0, one past the
\* end for the one after the last)
Separator(span, m) ==
    IF m = 0 THEN 0
    ELSE IF m > Cardinality(After(span, 0, CHOICE_SEP)) THEN Len(span) + 1
    ELSE CHOOSE j \in After(span, 0, CHOICE_SEP) :
            Cardinality({k \in After(span, 0, CHOICE_SEP) : k <= j}) = m

\* the alternatives of a choice interior
Alternatives(span) ==
    [m \in 1..(Cardinality(After(BeforeRandgen(span), 0, CHOICE_SEP)) + 1) |->
        SelectSeq(SubSeq(BeforeRandgen(span),
                         Separator(BeforeRandgen(span), m - 1) + 1,
                         Separator(BeforeRandgen(span), m) - 1),
                  LAMBDA t : t # CASE_GEN_SYM)]

\* C16: next_choice_tokens yields 1 + k alternatives, k being the number of
\* separators before the first random-generation marker; each is the run of
\* tokens between two consecutive separators without its casegen tokens; no
\* token at or after the marker is in any of them; the last one is yielded
\* even when it is empty.
C16_Choices ==
    parsed.fn = "next_choice_tokens"
    => /\ parsed.verdict = "ok"
       /\ parsed.value = Alternatives(tokens)

\* C16 witness: a casegen token, one alternative, a separator, an empty last
\* alternative and the random-generation marker.
C16_Witness ==
    /\ parsed.fn = "next_choice_tokens"
    /\ tokens = <<CASE_GEN_SYM, "n", CHOICE_SEP, RAND_GEN_SYM>>
    /\ parsed.value = <<(<<"n">>), << >> >>

----------------------------------------------------------------------------
(* parser_utils: find_modifiers_reference, find_modifiers_word_group *)

\* the tokens of the interior of a reference or of a word group: the
\* modifier symbols, a name and two numbers
ReferenceTokens ==
    {CASE_GEN_SYM, RAND_GEN_SYM, PERCENT_GEN_SYM, VARIATION_SYM, ARG_SYM,
     "n", "50", "150"}

\* a Python value with its type
IntValue(n) == <<"int", n>>

StrValue(text) == <<"str", text>>

\* int(token): the number, or None when int raises ValueError
int(token) ==
    IF token = "5" THEN Some(5)
    ELSE IF token = "12" THEN Some(12)
    ELSE IF token = "50" THEN Some(50)
    ELSE IF token = "150" THEN Some(150)
    ELSE None

\* a modifiers representation as it is constructed
ModifiersRepr ==
    [casegen |-> FALSE, randgen_name |-> None, percentage_randgen |-> None,
     variation_name |-> None, argument_value |-> None]

NotExpecting ==
    [randgen_name |-> FALSE, percentgen |-> FALSE, variation |-> FALSE,
     argument |-> FALSE]

\* the loop `while i < len(tokens_inside_reference)`, i counted from 0;
\* with_names tells the loop of find_modifiers_reference, which reads the
\* variation and the argument, from the one of find_modifiers_word_group
RECURSIVE ModifiersLoop(_, _, _, _, _)
ModifiersLoop(list, i, modifiers, expecting, with_names) ==
    IF ~(i < Len(list)) THEN Returned(modifiers)
    ELSE LET token == at(list, i)
         IN  IF token = RAND_GEN_SYM
             THEN ModifiersLoop(list, i + 1,
                    [modifiers EXCEPT !.randgen_name = Some("")],
                    [expecting EXCEPT !.randgen_name = TRUE], with_names)
             ELSE IF token = PERCENT_GEN_SYM
             THEN ModifiersLoop(list, i + 1,
                    [modifiers EXCEPT !.percentage_randgen = Some(StrValue(""))],
                    [expecting EXCEPT !.percentgen = TRUE, !.randgen_name = FALSE],
                    with_names)
             ELSE IF with_names /\ token = VARIATION_SYM
             THEN ModifiersLoop(list, i + 1, modifiers,
                    [expecting EXCEPT !.variation = TRUE], with_names)
             ELSE IF with_names /\ token = ARG_SYM
             THEN ModifiersLoop(list, i + 1,
                    [modifiers EXCEPT !.argument_value = Some("")],
                    [expecting EXCEPT !.argument = TRUE], with_names)
             ELSE IF expecting.randgen_name
             THEN ModifiersLoop(list, i + 1,
                    [modifiers EXCEPT !.randgen_name = Some(token)],
                    [expecting EXCEPT !.randgen_name = FALSE], with_names)
             ELSE IF expecting.percentgen
             THEN IF int(token) = None THEN Raised("ValueError")
                  ELSE ModifiersLoop(list, i + 1,
                        [modifiers EXCEPT !.percentage_randgen = Some(IntValue(int(token)[1]))],
                        [expecting EXCEPT !.percentgen = FALSE], with_names)
             ELSE IF with_names /\ expecting.variation
             THEN ModifiersLoop(list, i + 1,
                    [modifiers EXCEPT !.variation_name = Some(token)],
                    [expecting EXCEPT !.variation = FALSE], with_names)
             ELSE IF with_names /\ expecting.argument
             THEN ModifiersLoop(list, i + 1,
                    [modifiers EXCEPT !.argument_value = Some(token)],
                    [expecting EXCEPT !.argument = FALSE], with_names)
             ELSE ModifiersLoop(list, i + 1, modifiers, expecting, with_names)

\* the function up to its loop, then the loop
FindModifiers(list, with_names) ==
    IF Len(list) = 0 THEN Raised("IndexError")
    ELSE IF at(list, 0) = CASE_GEN_SYM
    THEN ModifiersLoop(list, 1, [ModifiersRepr EXCEPT !.casegen = TRUE],
                       NotExpecting, with_names)
    ELSE ModifiersLoop(list, 0, ModifiersRepr, NotExpecting, with_names)

find_modifiers_reference(tokens_inside_reference) ==
    FindModifiers(tokens_inside_reference, TRUE)

find_modifiers_word_group(tokens_inside_word_group) ==
    FindModifiers(tokens_inside_word_group, FALSE)

\* check_reference_validity: "ok" when it returns, else the exception
check_reference_validity(tokens_unit_inside) == "ok"

InitReference == ParserGiven(ReferenceTokens)

FindModifiersReference ==
    /\ check_reference_validity(tokens) = "ok"
    /\ ParserCall("find_modifiers_reference", find_modifiers_reference(tokens))

FindModifiersWordGroup ==
    /\ check_reference_validity(tokens) = "ok"
    /\ ParserCall("find_modifiers_word_group", find_modifiers_word_group(tokens))

NextReference ==
    \/ FindModifiersReference
    \/ FindModifiersWordGroup

SpecReference == InitReference /\ [][NextReference]_vars

\* C17: the record find_modifiers_reference or find_modifiers_word_group
\* returns for an interior check_reference_validity accepts has a percentage
\* that is absent or an integer from 0 to 100, and present only when the
\* interior holds a random-generation marker.
C17_PercentageInRange ==
    (/\ parsed.fn \in {"find_modifiers_reference", "find_modifiers_word_group"}
     /\ parsed.verdict = "ok"
     /\ parsed.value.percentage_randgen # None)
    => /\ parsed.value.percentage_randgen[1][1] = "int"
       /\ parsed.value.percentage_randgen[1][2] \in 0..100
       /\ \E i \in 1..Len(tokens) : tokens[i] = RAND_GEN_SYM

----------------------------------------------------------------------------
(* parser_utils: find_nb_examples_asked *)

ANNOTATION_ASSIGNMENT_SYM == ":"

\* the tokens of the interior of an annotation: the two keys, the
\* assignment symbol, a count of one digit, one of two digits and a word
AnnotationTokens == {"train", "test", ANNOTATION_ASSIGNMENT_SYM, "5", "12", "xx"}

\* len(token) > 1
LongerThanOne(token) == token \notin {ANNOTATION_ASSIGNMENT_SYM, "5"}

\* PATTERN_NB_TRAIN_EX_KEY.match(token)
IsTrainKey(token) == token = "train"

\* PATTERN_NB_TEST_EX_KEY.match(token)
IsTestKey(token) == token = "test"

\* the loop `for token in annotation_interior` from token i on, then the
\* conversion of what it found
RECURSIVE NbExamplesLoop(_, _, _, _, _, _)
NbExamplesLoop(list, i, nb_train, nb_test, expecting_train, expecting_test) ==
    IF i > Len(list)
    THEN IF nb_train = None THEN Raised("TypeError")
         ELSE IF int(nb_train[1]) = None THEN Returned(None)
         ELSE IF nb_test = None THEN Returned(Some(<<int(nb_train[1])[1], 0>>))
         ELSE IF int(nb_test[1]) = None THEN Returned(None)
         ELSE Returned(Some(<<int(nb_train[1])[1], int(nb_test[1])[1]>>))
    ELSE LET token == list[i]
         IN  IF ~LongerThanOne(token)
             THEN NbExamplesLoop(list, i + 1, nb_train, nb_test,
                                 expecting_train, expecting_test)
             ELSE IF IsTrainKey(token)
             THEN NbExamplesLoop(list, i + 1, nb_train, nb_test, TRUE, expecting_test)
             ELSE IF IsTestKey(token)
             THEN NbExamplesLoop(list, i + 1, nb_train, nb_test, expecting_train, TRUE)
             ELSE IF expecting_train
             THEN NbExamplesLoop(list, i + 1, Some(token), nb_test, FALSE, expecting_test)
             ELSE IF expecting_test
             THEN NbExamplesLoop(list, i + 1, nb_train, Some(token), expecting_train, FALSE)
             ELSE NbExamplesLoop(list, i + 1, nb_train, nb_test,
                                 expecting_train, expecting_test)

find_nb_examples_asked(annotation_interior) ==
    NbExamplesLoop(annotation_interior, 1, None, None, FALSE, FALSE)

InitAnnotation == ParserGiven(AnnotationTokens)

FindNbExamplesAsked ==
    ParserCall("find_nb_examples_asked", find_nb_examples_asked(tokens))

NextAnnotation == FindNbExamplesAsked

SpecAnnotation == InitAnnotation /\ [][NextAnnotation]_vars

\* the counts the span gives under a key: the tokens after the key and the
\* assignment symbol
CountsUnder(span, key) ==
    {span[i + 2] : i \in {k \in 1..(Len(span) - 2) :
        /\ span[k] = key
        /\ span[k + 1] = ANNOTATION_ASSIGNMENT_SYM
        /\ span[k + 2] \notin {"train", "test", ANNOTATION_ASSIGNMENT_SYM}}}

\* C18: find_nb_examples_asked never raises; it returns the pair of the
\* training count and of the test count (0 when none is given) when a
\* training count is given under a train key, whatever its number of digits,
\* and None when no count is present or a count is not numeric.
C18_NbExamplesAsked ==
    parsed.fn = "find_nb_examples_asked"
    => LET train == CountsUnder(tokens, "train")
           test == CountsUnder(tokens, "test")
       IN  /\ parsed.verdict = "ok"
           /\ (train = {} /\ test = {}) => parsed.value = None
           /\ (\E t \in train \cup test : int(t) = None) => parsed.value = None
           /\ \A t \in train :
                (train = {t} /\ test = {} /\ int(t) # None)
                    => parsed.value = Some(<<int(t)[1], 0>>)

\* the same for the spans that give a training count of two digits or a word
\* as only count
C18_LongCounts ==
    (/\ parsed.fn = "find_nb_examples_asked"
     /\ CountsUnder(tokens, "train") \in {{"12"}, {"xx"}}
     /\ CountsUnder(tokens, "test") = {}
     /\ Cardinality({i \in 1..Len(tokens) : LongerThanOne(tokens[i])}) = 2)
    => /\ parsed.verdict = "ok"
       /\ parsed.value = (IF CountsUnder(tokens, "train") = {"12"}
                          THEN Some(<<12, 0>>) ELSE None)

----------------------------------------------------------------------------
(* Properties of the count and of the two generation modes *)

\* the product of the defined counts of the nodes i.. of a rule
RECURSIVE ProductOfCounts(_, _)
ProductOfCounts(rule, i) ==
    IF i > Len(rule) THEN 1
    ELSE (IF rule[i].nb = None THEN 1 ELSE rule[i].nb[1])
            * ProductOfCounts(rule, i + 1)

\* the sum of the products of the rules i.. of a list
RECURSIVE SumOfProducts(_, _)
SumOfProducts(list, i) ==
    IF i > Len(list) THEN 0
    ELSE ProductOfCounts(list[i], 1) + SumOfProducts(list, i + 1)

\* every rule of the list has a node with a defined count
HaveCounts(list) ==
    \A i \in 1..Len(list) : \E k \in 1..Len(list[i]) : list[i][k].nb # None

\* C19: get_max_nb_generated_examples returns the sum over the selected
\* rules of the product of the defined counts of the rule's nodes, doubled
\* when the unit has casegen; a rule with a node of count 0 contributes 0
\* wherever that node is in the rule.
C19_CountIsSumOfProducts ==
    (/\ call.op = "get_max_nb_generated_examples"
     /\ outcome = "ok"
     /\ HaveCounts(RelevantRules(call.variation_name)))
    => returned_nb =
        Some(SumOfProducts(RelevantRules(call.variation_name), 1)
                * (IF casegen THEN 2 ELSE 1))

\* the examples generate_random may return for the arguments of the call
RandomExamples ==
    {r.returned[1] : r \in {g \in generate_random(call.variation_name, call.arg_value) :
                                g.outcome = "ok"}}

\* the examples of the list generate_all returns for the arguments of the call
AllExamples ==
    {generate_all(call.variation_name, call.arg_value).returned[i] :
        i \in 1..Len(generate_all(call.variation_name, call.arg_value).returned)}

\* C20: for a variation selection and an arg_value for which generate_all
\* returns, the Examples generate_random may return are the Examples of the
\* list generate_all returns, with casegen and with argument substitution too.
C20_RandomIsAll ==
    (/\ call.op \in {"generate_random", "generate_all"}
     /\ outcome = "ok"
     /\ generate_all(call.variation_name, call.arg_value).outcome = "ok")
    => RandomExamples = AllExamples

\* the same for the units without casegen whose rules are made of nodes
\* that have an output and no randgen name
C20_PlainRules ==
    (/\ call.op \in {"generate_random", "generate_all"}
     /\ outcome = "ok"
     /\ ~casegen
     /\ RelevantRules(call.variation_name) # << >>
     /\ \A i \in 1..Len(RelevantRules(call.variation_name)) :
            /\ RelevantRules(call.variation_name)[i] # << >>
            /\ \A k \in 1..Len(RelevantRules(call.variation_name)[i]) :
                    RelevantRules(call.variation_name)[i][k] \in {BaseNode, Choice, ArgWord})
    => RandomExamples = AllExamples

----------------------------------------------------------------------------
(* Properties of the count as a bound, and of a failing add_rule *)

\* C21: whenever generate_all succeeds for a selection, the list it returns
\* is not longer than the count get_max_nb_generated_examples returns for
\* the same selection.
C21_CountIsUpperBound ==
    (/\ call.op = "get_max_nb_generated_examples"
     /\ outcome = "ok"
     /\ generate_all(call.variation_name, None).outcome = "ok")
    => Len(generate_all(call.variation_name, None).returned) <= returned_nb[1]

\* C22: an add_rule or add_rules call that raises SyntaxError for an empty
\* variation name leaves the rules list and the variations mapping, keys and
\* lists, as they were before the call.
C22_FailedAddLeavesUnit ==
    [][(/\ call'.op \in {"add_rule", "add_rules"}
        /\ outcome' = "SyntaxError")
       => /\ rules' = rules
          /\ heap'[rules] = heap[rules]
          /\ variations' = variations
          /\ \A v \in DOMAIN variations :
                heap'[variations[v]] = heap[variations[v]]]_vars

----------------------------------------------------------------------------
(* parser_utils: find_name, find_modifiers_decl *)

\* the longest declaration interior given to find_name and find_modifiers_decl
MaxDeclTokens == 5

\* the tokens of these interiors: the casegen, variation and argument
\* symbols, another special symbol, three names and a reserved name
NamedDeclTokens ==
    {CASE_GEN_SYM, VARIATION_SYM, ARG_SYM, ALIAS_SYM, "n", "v", "a", "rules"}

find_name(tokens_inside_unit) ==
    IF Len(tokens_inside_unit) = 0 THEN Raised("IndexError")
    ELSE IF at(tokens_inside_unit, 0) = CASE_GEN_SYM
    THEN IF Len(tokens_inside_unit) = 1 THEN Raised("IndexError")
         ELSE Returned(at(tokens_inside_unit, 1))
    ELSE Returned(at(tokens_inside_unit, 0))

\* a declaration's modifiers representation as it is constructed
DeclModifiersRepr ==
    [casegen |-> FALSE, variation_name |-> None, argument_name |-> None]

\* the loop `while i < len(tokens_inside_decl)`, i counted from 0
RECURSIVE DeclModifiersLoop(_, _, _, _, _)
DeclModifiersLoop(list, i, modifiers, expecting_variation, expecting_argument) ==
    IF ~(i < Len(list)) THEN Returned(modifiers)
    ELSE IF at(list, i) = VARIATION_SYM
    THEN DeclModifiersLoop(list, i + 1, modifiers, TRUE, expecting_argument)
    ELSE IF at(list, i) = ARG_SYM
    THEN DeclModifiersLoop(list, i + 1,
            [modifiers EXCEPT !.argument_name = Some("")],
            expecting_variation, TRUE)
    ELSE IF expecting_variation
    THEN DeclModifiersLoop(list, i + 1,
            [modifiers EXCEPT !.variation_name = Some(at(list, i))],
            FALSE, expecting_argument)
    ELSE IF expecting_argument
    THEN DeclModifiersLoop(list, i + 1,
            [modifiers EXCEPT !.argument_name = Some(at(list, i))],
            expecting_variation, FALSE)
    ELSE DeclModifiersLoop(list, i + 1, modifiers,
                           expecting_variation, expecting_argument)

\* find_modifiers_decl that does not look for a leading casegen symbol
find_modifiers_decl_uncased(tokens_inside_decl) ==
    IF Len(tokens_inside_decl) = 0 THEN Raised("IndexError")
    ELSE DeclModifiersLoop(tokens_inside_decl, 0, DeclModifiersRepr, FALSE, FALSE)

find_modifiers_decl(tokens_inside_decl) ==
    IF Len(tokens_inside_decl) = 0 THEN Raised("IndexError")
    ELSE IF at(tokens_inside_decl, 0) = CASE_GEN_SYM
    THEN DeclModifiersLoop(tokens_inside_decl, 1,
                           [DeclModifiersRepr EXCEPT !.casegen = TRUE], FALSE, FALSE)
    ELSE DeclModifiersLoop(tokens_inside_decl, 0, DeclModifiersRepr, FALSE, FALSE)

\* the parser is given the interior of a declaration
InitNamedDecl ==
    /\ UnitIdle
    /\ tokens \in UNION {[1..n -> NamedDeclTokens] : n \in 0..MaxDeclTokens}
    /\ parsed = NotParsed

\* find_name on an interior that check_declaration_validity accepts
FindName ==
    /\ check_declaration_validity(tokens) = "ok"
    /\ ParserCall("find_name", find_name(tokens))

\* find_modifiers_decl on an interior that check_declaration_validity accepts
FindModifiersDecl ==
    /\ check_declaration_validity(tokens) = "ok"
    /\ ParserCall("find_modifiers_decl", find_modifiers_decl(tokens))

NextNamedDecl ==
    \/ FindName
    \/ FindModifiersDecl

SpecNamedDecl == InitNamedDecl /\ [][NextNamedDecl]_vars

\* the token right after the marker of the span, absent when the span has no
\* such marker
NameAfter(span, marker) ==
    IF After(span, 0, marker) = {} THEN None
    ELSE Some(span[FirstAfter(span, 0, marker) + 1])

\* C23: on an interior check_declaration_validity accepts, find_name returns
\* the first token, or the second when the first is the casegen marker, and
\* it is no special symbol; find_modifiers_decl returns a record whose casegen
\* tells whether the span starts with the casegen marker, whose
\* variation_name is the token right after the variation marker (not
\* reserved) or absent without marker, and whose argument_name is the token
\* right after the argument marker or absent without marker.
C23_NameAndModifiers ==
    /\ parsed.fn = "find_name"
        => /\ parsed.verdict = "ok"
           /\ parsed.value =
                (IF tokens[1] = CASE_GEN_SYM THEN tokens[2] ELSE tokens[1])
           /\ ~is_special_sym(parsed.value)
    /\ parsed.fn = "find_modifiers_decl"
        => /\ parsed.verdict = "ok"
           /\ parsed.value.casegen = (tokens[1] = CASE_GEN_SYM)
           /\ parsed.value.variation_name = NameAfter(tokens, VARIATION_SYM)
           /\ \A v \in RESERVED_VARIATION_NAMES :
                parsed.value.variation_name # Some(v)
           /\ parsed.value.argument_name = NameAfter(tokens, ARG_SYM)
           /\ parsed.value.argument_name # Some("")

\* C23 witness: an interior with an argument then a variation.
C23_Witness ==
    /\ parsed.fn = "find_modifiers_decl"
    /\ tokens = <<"n", ARG_SYM, "a", VARIATION_SYM, "v">>
    /\ parsed.value =
        [casegen |-> FALSE, variation_name |-> Some("v"), argument_name |-> Some("a")]

----------------------------------------------------------------------------
(* Property of the sub-rules as a whole *)

\* the lists i.. of a list of lists, one after the other
RECURSIVE Concatenated(_, _)
Concatenated(lists, i) ==
    IF i > Len(lists) THEN << >>
    ELSE lists[i] \o Concatenated(lists, i + 1)

\* C24: the sub-rules next_sub_rule_tokens yields, concatenated in order,
\* are the tokens it was given, also when a construct opened in the rule is
\* never closed.
C24_SubRulesCoverTokens ==
    parsed.fn = "next_sub_rule_tokens"
    => /\ parsed.verdict = "ok"
       /\ Concatenated(parsed.value, 1) = tokens

\* the same for the token lists whose constructs are all closed
C24_ClosedConstructs ==
    (parsed.fn = "next_sub_rule_tokens" /\ Terminated(tokens, 1))
    => Concatenated(parsed.value, 1) = tokens

====
